---- MODULE Spec2Model ----
(***************************************************************************)
(* Exterminator: a schema validator (script.js).  A schema maps field      *)
(* names to field validators built by fluent builder calls; validate(obj)  *)
(* compares the key sets and then runs every field validator.              *)
(*                                                                         *)
(* The model covers the first definition of each class in script.js        *)
(* (lines 1-603).                                                          *)
(***************************************************************************)
EXTENDS Integers, Sequences, FiniteSets, TLC

\* Bounds of the model.
MaxChain == 2       \* builder calls on the validator of a one-field schema
MaxPairCalls == 1   \* builder calls, in total, in a two-field schema
MaxCalls == 2       \* Exterminator.validate calls on one schema

(***************************************************************************)
(* JavaScript values.  A string is a sequence of one-character strings.    *)
(***************************************************************************)
Str(s) == [t |-> "string", s |-> s, n |-> 0]
Num(n) == [t |-> "number", s |-> <<>>, n |-> n]
Null == [t |-> "null", s |-> <<>>, n |-> 0]
Undefined == [t |-> "undefined", s |-> <<>>, n |-> 0]
EmptyString == Str(<<>>)

\* UTF-16 code units of the characters that occur in the model.
CharCode ==
  [c \in {" ", "-", ".", "0", "1", "@", "_", "a", "b", "d", "e", "f", "i", "l",
          "n", "o", "u", "x", "y"} |->
     CASE c = " " -> 32 [] c = "-" -> 45 [] c = "." -> 46 [] c = "0" -> 48
       [] c = "1" -> 49 [] c = "@" -> 64 [] c = "_" -> 95 [] c = "a" -> 97
       [] c = "b" -> 98
       [] c = "d" -> 100 [] c = "e" -> 101 [] c = "f" -> 102 [] c = "i" -> 105
       [] c = "l" -> 108 [] c = "n" -> 110 [] c = "o" -> 111 [] c = "u" -> 117
       [] c = "x" -> 120 [] c = "y" -> 121]

IsLetter(c) ==
  \/ CharCode[c] >= 65 /\ CharCode[c] <= 90
  \/ CharCode[c] >= 97 /\ CharCode[c] <= 122
IsDigit(c) == CharCode[c] >= 48 /\ CharCode[c] <= 57
IsWhitespace(c) == c = " "

\* The strings and domains of the inputs.
XIo == <<"x", ".", "i", "o">>
YIo == <<"y", ".", "i", "o">>
MailAtX == <<"a", "@">> \o XIo

\* String.prototype.trim: strips the whitespace of both ends.
RECURSIVE TrimStart(_)
TrimStart(s) ==
  IF s # <<>> /\ IsWhitespace(Head(s)) THEN TrimStart(Tail(s)) ELSE s

RECURSIVE TrimEnd(_)
TrimEnd(s) ==
  IF s # <<>> /\ IsWhitespace(s[Len(s)])
    THEN TrimEnd(SubSeq(s, 1, Len(s) - 1))
    ELSE s

Trim(s) == TrimEnd(TrimStart(s))

\* String(value), as RegExp.prototype.test applies it to its argument.
StringOf(v) ==
  CASE v.t = "string" -> v.s
    [] v.t = "null" -> <<"n", "u", "l", "l">>
    [] v.t = "undefined" -> <<"u", "n", "d", "e", "f", "i", "n", "e", "d">>
    [] v.t = "number" -> IF v.n = 0 THEN <<"0">> ELSE <<"1">>

\* Number(value), as the relational operators apply it: [nan, n].  The
\* alphabet holds no digit inside a string input, so a string is 0 when it
\* is empty or whitespace and NaN otherwise.
ToNumber(v) ==
  CASE v.t = "number" -> [nan |-> FALSE, n |-> v.n]
    [] v.t = "null" -> [nan |-> FALSE, n |-> 0]
    [] v.t = "undefined" -> [nan |-> TRUE, n |-> 0]
    [] v.t = "string" ->
         IF Trim(v.s) = <<>> THEN [nan |-> FALSE, n |-> 0]
         ELSE [nan |-> TRUE, n |-> 0]

\* s < t for two strings: the order of the code units.
RECURSIVE StringLess(_, _)
StringLess(s, t) ==
  IF t = <<>> THEN FALSE
  ELSE IF s = <<>> THEN TRUE
  ELSE IF CharCode[Head(s)] # CharCode[Head(t)]
    THEN CharCode[Head(s)] < CharCode[Head(t)]
    ELSE StringLess(Tail(s), Tail(t))

\* x < y, the abstract relational comparison; false when a side is NaN.
Less(x, y) ==
  IF x.t = "string" /\ y.t = "string" THEN StringLess(x.s, y.s)
  ELSE LET a == ToNumber(x)
           b == ToNumber(y)
       IN  ~a.nan /\ ~b.nan /\ a.n < b.n

\* x > y
GreaterThan(x, y) == Less(y, x)

\* Whether x < y is defined: two strings, or no NaN on either side.
Comparable(x, y) ==
  \/ x.t = "string" /\ y.t = "string"
  \/ ~ToNumber(x).nan /\ ~ToNumber(y).nan

\* x >= y: x < y is false (not undefined).
GreaterEqual(x, y) == Comparable(x, y) /\ ~Less(x, y)

\* x <= y: y < x is false (not undefined).
LessEqual(x, y) == Comparable(x, y) /\ ~Less(y, x)

(***************************************************************************)
(* Plain objects: the own keys in insertion order, and their values.       *)
(***************************************************************************)
Range(s) == {s[i] : i \in DOMAIN s}

EmptyMap == [key \in {} |-> <<>>]

\* obj[key]: undefined when obj has no such key.
Get(o, key) == IF key \in Range(o.keys) THEN o.val[key] ELSE Undefined

(***************************************************************************)
(* Error messages.  value, n and list are what the template interpolates.  *)
(***************************************************************************)
Message(text) == [text |-> text, n |-> 0, value |-> Undefined, list |-> <<>>]
NoSetup == Message("")

NullMessage == Message("Value cannot be null")
KeysMessage == Message("Schema keys and validator keys are not the same")
StringRequiredMessage == Message("Value is required")
NumberRequiredMessage == Message("This field is required.")
EmailMessage == Message("Value must be a valid email")
OneOfMessage == Message("Invalid value")
PositiveMessage == Message("The number must be positive.")
OneOfSetupMessage == Message("You must provide at least one allowed value.")

MinMessage(length, value) ==
  [text |-> "Value must be at least ${length} characters long, but got ${value}",
   n |-> length, value |-> value, list |-> <<>>]

EqualsMessage(field) ==
  [text |-> "Value must be equal to ${field}", n |-> 0, value |-> Undefined,
   list |-> <<field>>]

GreaterMessage(field) ==
  [text |-> "The number must be greater than ${field}.", n |-> 0,
   value |-> Undefined, list |-> <<field>>]

LessMessage(field) ==
  [text |-> "The number must be less than ${field}.", n |-> 0,
   value |-> Undefined, list |-> <<field>>]

GreaterEqualMessage(field) ==
  [text |-> "The number must be greater than or equal to ${field}.", n |-> 0,
   value |-> Undefined, list |-> <<field>>]

LessEqualMessage(field) ==
  [text |-> "The number must be less than or equal to ${field}.", n |-> 0,
   value |-> Undefined, list |-> <<field>>]

DomainsSetupMessage(commonDomains) ==
  [text |-> "Domains ${commonDomains} cannot be both allowed and excluded.",
   n |-> 0, value |-> Undefined, list |-> commonDomains]

AllowedDomainMessage(domains) ==
  [text |-> "Email domain must be one of ${domains}", n |-> 0,
   value |-> Undefined, list |-> domains]

ExcludedDomainMessage(excludeDomains) ==
  [text |-> "Email domain must not be one of ${excludeDomains}", n |-> 0,
   value |-> Undefined, list |-> excludeDomains]

(***************************************************************************)
(* Rules: the entries of a field validator's validators list.              *)
(***************************************************************************)
Rule(cls, name) ==
  [cls |-> cls, name |-> name, length |-> 0, field |-> "", domains |-> <<>>,
   excludeDomains |-> <<>>, allowedValues |-> <<>>]

\* What a rule's check gives: true, false, a string, or an exception.
Pass == [t |-> "true", m |-> NoSetup]
Fail == [t |-> "false", m |-> NoSetup]
FailWith(m) == [t |-> "string", m |-> m]
Throw == [t |-> "throw", m |-> NoSetup]
Bool(b) == IF b THEN Pass ELSE Fail

\* /^[a-zA-Z0-9._-]+@[a-zA-Z0-9.-]+\.[a-zA-Z]{2,4}$/i
EmailRegexTest(s) ==
  \E i \in 2..Len(s) : \E j \in (i + 2)..Len(s) :
    /\ s[i] = "@"
    /\ s[j] = "."
    /\ \A k \in 1..(i - 1) :
         IsLetter(s[k]) \/ IsDigit(s[k]) \/ s[k] \in {".", "_", "-"}
    /\ \A k \in (i + 1)..(j - 1) :
         IsLetter(s[k]) \/ IsDigit(s[k]) \/ s[k] \in {".", "-"}
    /\ Len(s) - j >= 2
    /\ Len(s) - j <= 4
    /\ \A k \in (j + 1)..Len(s) : IsLetter(s[k])

\* value.split("@")[1] of a string the regex accepted: what follows the "@".
EmailDomain(s) ==
  LET at == CHOOSE i \in 1..Len(s) : s[i] = "@"
  IN  SubSeq(s, at + 1, Len(s))

(***************************************************************************)
(* The checks of the StringValidator rules (validate: of each pushed rule). *)
(***************************************************************************)
\* (value) => value != null && value.trim() !== ""
StringRequiredCheck(value) ==
  CASE value.t \in {"null", "undefined"} -> Fail
    [] value.t = "string" -> Bool(Trim(value.s) # <<>>)
    [] value.t = "number" -> Throw        \* value.trim is not a function

\* (value) => value.length >= length
MinCheck(rule, value) ==
  CASE value.t \in {"null", "undefined"} -> Throw
    [] value.t = "string" -> Bool(Len(value.s) >= rule.length)
    [] value.t = "number" -> Fail         \* undefined >= length

\* The email rule: format, then the allow list, then the deny list.
EmailCheck(rule, value) ==
  IF ~EmailRegexTest(StringOf(value)) THEN FailWith(EmailMessage)
  ELSE LET domain == EmailDomain(value.s)
       IN  IF rule.domains # <<>> /\ domain \notin Range(rule.domains)
             THEN FailWith(AllowedDomainMessage(rule.domains))
           ELSE IF rule.excludeDomains # <<>>
                   /\ domain \in Range(rule.excludeDomains)
             THEN FailWith(ExcludedDomainMessage(rule.excludeDomains))
           ELSE Pass

\* (value) => allowedValues.includes(value)
OneOfCheck(rule, value) == Bool(value \in Range(rule.allowedValues))

\* (value, obj) => value === obj[field]
EqualsCheck(rule, value, o) == Bool(value = Get(o, rule.field))

(***************************************************************************)
(* The checks of the NumberValidator rules.                                *)
(***************************************************************************)
\* (value) => value !== null && value !== undefined
NumberRequiredCheck(value) == Bool(value.t \notin {"null", "undefined"})

\* (value) => value > 0
PositiveCheck(value) == Bool(GreaterThan(value, Num(0)))

\* (value, obj) => value > obj[field]
GreaterCheck(rule, value, o) == Bool(GreaterThan(value, Get(o, rule.field)))

\* (value, obj) => value < obj[field]
LessCheck(rule, value, o) == Bool(Less(value, Get(o, rule.field)))

\* (value, obj) => value >= obj[field]
GreaterEqualCheck(rule, value, o) ==
  Bool(GreaterEqual(value, Get(o, rule.field)))

\* (value, obj) => value <= obj[field]
LessEqualCheck(rule, value, o) == Bool(LessEqual(value, Get(o, rule.field)))

\* validator.validate(value, obj) of one rule.
RuleCheck(rule, value, o) ==
  CASE rule.cls = "string" /\ rule.name = "required" -> StringRequiredCheck(value)
    [] rule.cls = "string" /\ rule.name = "min" -> MinCheck(rule, value)
    [] rule.cls = "string" /\ rule.name = "email" -> EmailCheck(rule, value)
    [] rule.cls = "string" /\ rule.name = "oneOf" -> OneOfCheck(rule, value)
    [] rule.cls = "string" /\ rule.name = "equals" -> EqualsCheck(rule, value, o)
    [] rule.cls = "number" /\ rule.name = "required" -> NumberRequiredCheck(value)
    [] rule.cls = "number" /\ rule.name = "positive" -> PositiveCheck(value)
    [] rule.cls = "number" /\ rule.name = "greater" -> GreaterCheck(rule, value, o)
    [] rule.cls = "number" /\ rule.name = "less" -> LessCheck(rule, value, o)
    [] rule.cls = "number" /\ rule.name = "greaterEqual" ->
         GreaterEqualCheck(rule, value, o)
    [] rule.cls = "number" /\ rule.name = "lessEqual" ->
         LessEqualCheck(rule, value, o)

\* The error property of a rule, resolved as validate resolves it:
\* validator.error(value, result) when it is a function, else validator.error.
RuleError(rule, value, result) ==
  CASE rule.cls = "string" /\ rule.name = "required" -> StringRequiredMessage
    [] rule.cls = "string" /\ rule.name = "min" -> MinMessage(rule.length, value)
    [] rule.cls = "string" /\ rule.name = "email" ->
         IF result.t = "string" THEN result.m ELSE EmailMessage
    [] rule.cls = "string" /\ rule.name = "oneOf" -> OneOfMessage
    [] rule.cls = "string" /\ rule.name = "equals" -> EqualsMessage(rule.field)
    [] rule.cls = "number" /\ rule.name = "required" -> NumberRequiredMessage
    [] rule.cls = "number" /\ rule.name = "positive" -> PositiveMessage
    [] rule.cls = "number" /\ rule.name = "greater" -> GreaterMessage(rule.field)
    [] rule.cls = "number" /\ rule.name = "less" -> LessMessage(rule.field)
    [] rule.cls = "number" /\ rule.name = "greaterEqual" ->
         GreaterEqualMessage(rule.field)
    [] rule.cls = "number" /\ rule.name = "lessEqual" ->
         LessEqualMessage(rule.field)

(***************************************************************************)
(* Field validators.  hasErrors: whether the errors property exists (the   *)
(* NumberValidator constructor does not create it).                        *)
(***************************************************************************)
\* new StringValidator(options)
StringValidator ==
  [cls |-> "string", validators |-> <<>>, errors |-> <<>>, hasErrors |-> TRUE,
   preprocessors |-> <<>>, isOptional |-> FALSE, isNullable |-> FALSE,
   invalidSetup |-> NoSetup]

\* new NumberValidator(options)
NumberValidator ==
  [cls |-> "number", validators |-> <<>>, errors |-> <<>>, hasErrors |-> FALSE,
   preprocessors |-> <<>>, isOptional |-> FALSE, isNullable |-> FALSE,
   invalidSetup |-> NoSetup]

\* The preprocessor's output dropped: preprocessor(value) without the
\* assignment to value.
PreprocessDiscarded(pp, value) ==
  [thrown |-> value.t # "string", value |-> value]

\* One preprocessor applied to a value: (value) => value.trim().  An
\* exception is [thrown |-> TRUE].
Preprocess(pp, value) ==
  IF value.t = "string"
    THEN [thrown |-> FALSE, value |-> Str(Trim(value.s))]
    ELSE [thrown |-> TRUE, value |-> value]

\* for (let preprocessor of this.preprocessors) value = preprocessor(value)
\* st = [thrown, value, ran]: ran counts the preprocessors called.
RECURSIVE RunPreprocessors(_, _, _)
RunPreprocessors(pps, i, st) ==
  IF i > Len(pps) \/ st.thrown THEN st
  ELSE LET r == Preprocess(pps[i], st.value)
       IN  RunPreprocessors(pps, i + 1,
             [thrown |-> r.thrown, value |-> r.value, ran |-> st.ran + 1])

\* if (result !== true) this.errors.push(...)
PushError(errors, rule, value, result) ==
  IF result.t # "true" THEN Append(errors, RuleError(rule, value, result))
  ELSE errors

\* The sweep stopping at the first failure: later failures are not pushed.
SweepStepFirstOnly(st, rule, value, result) ==
  IF result.t = "throw"
    THEN [thrown |-> TRUE, errors |-> st.errors, ran |-> st.ran + 1]
    ELSE [thrown |-> FALSE,
          errors |-> IF st.errors = <<>>
                       THEN PushError(st.errors, rule, value, result)
                       ELSE st.errors,
          ran |-> st.ran + 1]

\* One iteration of the rule sweep, given the result of the rule's check.
\* st = [thrown, errors, ran]: ran counts the rule checks called.
SweepStep(st, rule, value, result) ==
  IF result.t = "throw"
    THEN [thrown |-> TRUE, errors |-> st.errors, ran |-> st.ran + 1]
    ELSE [thrown |-> FALSE,
          errors |-> PushError(st.errors, rule, value, result),
          ran |-> st.ran + 1]

\* for (let validator of this.validators) { ... }
RECURSIVE RunValidators(_, _, _, _, _)
RunValidators(rules, i, value, o, st) ==
  IF i > Len(rules) \/ st.thrown THEN st
  ELSE RunValidators(rules, i + 1, value, o,
         SweepStep(st, rules[i], value, RuleCheck(rules[i], value, o)))

\* validate without the reset: the list of the earlier call is kept.
KeepErrors(errors) == errors

\* this.errors = [], the first statement of validate.
ClearErrors(errors) == <<>>

\* The result of a field validator's validate: what it returns ("true",
\* "false", or "throw" for an exception), the errors list it leaves, and
\* how many preprocessors and rule checks it called.
Outcome(ret, errors, ran) == [ret |-> ret, errors |-> errors, ran |-> ran]

\* return this.errors.length === 0, or the exception of a rule's check.
AfterSweep(sweep) ==
  IF sweep.thrown THEN Outcome("throw", sweep.errors, sweep.ran)
  ELSE Outcome(IF Len(sweep.errors) = 0 THEN "true" ELSE "false",
               sweep.errors, sweep.ran)

\* The rule sweep on the preprocessed value, or the exception of a
\* preprocessor.
AfterPreprocess(fv, o, errors, pre) ==
  IF pre.thrown THEN Outcome("throw", errors, pre.ran)
  ELSE AfterSweep(RunValidators(fv.validators, 1, pre.value, o,
                    [thrown |-> FALSE, errors |-> errors, ran |-> pre.ran]))

\* The optional check skipped: an empty string goes on to the rules.
NeverSkipped(fv, value) == FALSE

\* The optional check taking null for empty as well.
SkippedIfEmptyOrNull(fv, value) == fv.isOptional /\ value \in {EmptyString, Null}

\* if (this.isOptional && value === "")
Skipped(fv, value) == fv.isOptional /\ value = EmptyString

\* validate with the optional check ahead of the setup check.
ProtocolOptionalFirst(fv, value, o, errors) ==
  IF Skipped(fv, value)
    THEN Outcome("true", errors, 0)
  ELSE IF fv.invalidSetup # NoSetup
    THEN Outcome("false", Append(errors, fv.invalidSetup), 0)
  ELSE IF value = Null
    THEN IF fv.isNullable
           THEN Outcome("true", errors, 0)
           ELSE Outcome("false", Append(errors, NullMessage), 0)
  ELSE AfterPreprocess(fv, o, errors,
         RunPreprocessors(fv.preprocessors, 1,
           [thrown |-> FALSE, value |-> value, ran |-> 0]))

\* The body of validate after this.errors = []: the setup check, the
\* optional check, the null check, the preprocessors and the rule sweep.
\* errors is the list this.errors holds.
Protocol(fv, value, o, errors) ==
  IF fv.invalidSetup # NoSetup
    THEN Outcome("false", Append(errors, fv.invalidSetup), 0)
  ELSE IF Skipped(fv, value)
    THEN Outcome("true", errors, 0)
  ELSE IF value = Null
    THEN IF fv.isNullable
           THEN Outcome("true", errors, 0)
           ELSE Outcome("false", Append(errors, NullMessage), 0)
  ELSE AfterPreprocess(fv, o, errors,
         RunPreprocessors(fv.preprocessors, 1,
           [thrown |-> FALSE, value |-> value, ran |-> 0]))

\* StringValidator.validate(value, obj)
StringValidator_validate(fv, value, o) ==
  Protocol(fv, value, o, ClearErrors(fv.errors))

\* NumberValidator.validate(value, obj): the same statements; its guards
\* if (this.preprocessors) and if (this.validators) always hold.
NumberValidator_validate(fv, value, o) ==
  Protocol(fv, value, o, ClearErrors(fv.errors))

\* validator.validate(value, obj), dispatched on the validator's class.
FieldValidate(fv, value, o) ==
  IF fv.cls = "string" THEN StringValidator_validate(fv, value, o)
  ELSE NumberValidator_validate(fv, value, o)

(***************************************************************************)
(* Exterminator.                                                           *)
(***************************************************************************)
\* Array.prototype.sort() on an array of keys: ascending code units.
RECURSIVE Insert(_, _)
Insert(sorted, key) ==
  IF sorted = <<>> THEN <<key>>
  ELSE IF CharCode[key] < CharCode[Head(sorted)] THEN <<key>> \o sorted
  ELSE <<Head(sorted)>> \o Insert(Tail(sorted), key)

\* sort leaving the array as it is.
sortNone(a) == a

RECURSIVE sort(_)
sort(a) == IF a = <<>> THEN <<>> ELSE Insert(sort(Tail(a)), Head(a))

\* arraysEqual comparing the lengths only.
arraysEqualLength(a, b) == Len(a) = Len(b)

\* arraysEqual(a, b)
arraysEqual(a, b) ==
  Len(a) = Len(b) /\ \A index \in 1..Len(a) : a[index] = b[index]

\* The value validate returns or, for kind "throw", the exception.
ReturnTrue == [kind |-> "true", message |-> "", errors |-> EmptyMap]
Thrown == [kind |-> "throw", message |-> "", errors |-> EmptyMap]
Failure(errs) ==
  [kind |-> "failure", message |-> "Validation failed", errors |-> errs]
KeysFailure == Failure([key \in {"keys"} |-> <<KeysMessage>>])

\* f with f[key] set to value, key added to the domain when new.
Put(f, key, value) ==
  [x \in DOMAIN f \cup {key} |-> IF x = key THEN value ELSE f[x]]

\* The test inverted: if (error === true).
IsInvalidInverted(ret) == ret = "true"

\* if (error !== true), on what validator.validate returned.
IsInvalid(ret) == ret # "true"

\* The loop body after validator.validate(value, obj) gave out.
\* st = [thrown, val, errs, ext, invoked]: the validators, the local errors
\* map, this.errors and the validate calls made so far.  An exception
\* leaves the loop with what was assigned before it.
Record(st, key, value, out) ==
  [thrown |-> out.ret = "throw",
   val |-> [st.val EXCEPT ![key] =
              [@ EXCEPT !.errors = out.errors, !.hasErrors = TRUE]],
   errs |-> IF out.ret # "throw" /\ IsInvalid(out.ret)
              THEN Put(st.errs, key, out.errors)
              ELSE st.errs,
   ext |-> IF out.ret # "throw" /\ IsInvalid(out.ret)
             THEN Append(st.ext, [key |-> key, error |-> FALSE])
             ELSE st.ext,
   invoked |-> Append(st.invoked,
                 [key |-> key, value |-> value, ret |-> out.ret,
                  ran |-> out.ran])]

\* The object with every field's value replaced by the output of that
\* field's preprocessors.
Transformed(val, o) ==
  [keys |-> o.keys,
   val |-> [key \in DOMAIN o.val |->
              IF key \in DOMAIN val /\ o.val[key].t = "string"
                   /\ val[key].preprocessors # <<>>
                THEN Str(Trim(o.val[key].s))
                ELSE o.val[key]]]

\* The loop body handing the rules the transformed object instead of obj.
FieldStepTransformed(st, key, o) ==
  Record(st, key, Get(o, key),
         FieldValidate(st.val[key], Get(o, key), Transformed(st.val, o)))

\* One iteration of the loop over the schema's keys.
FieldStep(st, key, o) ==
  Record(st, key, Get(o, key), FieldValidate(st.val[key], Get(o, key), o))

\* for (let key in this.schema) { ... }
RECURSIVE FieldLoop(_, _, _, _)
FieldLoop(keys, i, o, st) ==
  IF i > Len(keys) \/ st.thrown THEN st
  ELSE FieldLoop(keys, i + 1, o, FieldStep(st, keys[i], o))

\* What validate returns after the loop, with the state it leaves.
Report(st) ==
  [result |-> IF st.thrown THEN Thrown
              ELSE IF DOMAIN st.errs = {} THEN ReturnTrue
              ELSE Failure(st.errs),
   val |-> st.val, ext |-> st.ext, invoked |-> st.invoked]

\* Exterminator.validate(obj) on the schema sch with this.errors = ext:
\* [result, val, ext, invoked].
Exterminator_validate(sch, ext, o) ==
  IF ~arraysEqual(sort(sch.keys), sort(o.keys))
    THEN [result |-> KeysFailure, val |-> sch.val, ext |-> ext,
          invoked |-> <<>>]
    ELSE Report(FieldLoop(sch.keys, 1, o,
                  [thrown |-> FALSE, val |-> sch.val, errs |-> EmptyMap,
                   ext |-> ext, invoked |-> <<>>]))

(***************************************************************************)
(* The inputs.                                                             *)
(***************************************************************************)
\* The fields of the schema literal, in the order it declares them.
FieldOrder == <<"b", "a">>

\* The field a cross-field rule names.
CrossFields == {"a"}

Values ==
  {Null, Undefined, EmptyString, Str(<<" ">>), Str(MailAtX), Num(0), Num(1)}

\* The values of the two-key objects.
PairValues == {Undefined, Str(<<" ">>), Str(MailAtX), Num(1)}

\* The objects given to validate: no key, one key, or both keys.
Objects ==
  {[keys |-> <<>>, val |-> EmptyMap]}
    \cup {[keys |-> <<key>>, val |-> [k \in {key} |-> v]] :
            key \in {"a", "b"}, v \in Values}
    \cup {[keys |-> <<"a", "b">>, val |-> f] : f \in [{"a", "b"} -> PairValues]}

\* The {domains, excludeDomains} options given to email().
EmailOptions ==
  {[domains |-> <<>>, excludeDomains |-> <<>>],
   [domains |-> <<XIo>>, excludeDomains |-> <<XIo>>]}

\* The allowedValues given to oneOf().
AllowedValueLists == {<<>>, <<Str(MailAtX)>>}

\* The length given to min().
MinLengths == {1}

(***************************************************************************)
(* State.                                                                  *)
(***************************************************************************)
VARIABLES
  schema,       \* the schema literal: [keys, val], keys in insertion order
  constructed,  \* whether new Exterminator(schema) has run
  errors,       \* Exterminator's this.errors
  obj,          \* the argument of the last validate call
  result,       \* what the last validate call returned
  invoked,      \* the field validators' validate calls of the last call
  nCalls,       \* the number of validate calls so far
  nBuilder,     \* the number of builder calls so far
  heap          \* the errors lists as objects (followed under SpecRef only)

vars ==
  <<schema, constructed, errors, obj, result, invoked, nCalls, nBuilder,
    heap>>

\* The errors lists as objects: inst, the validator instance bound to each
\* field (named by the first field it is bound to); slot, the list each
\* instance's this.errors refers to (0: the property does not exist); lists,
\* the contents of every list created so far; reports, the failure reports
\* returned so far, each with the lists its entries refer to and what they
\* held when it was returned.
NoHeap == [inst |-> EmptyMap, slot |-> EmptyMap, lists |-> <<>>, reports |-> <<>>]

EmptyObject == [keys |-> <<>>, val |-> EmptyMap]
NoResult == [kind |-> "none", message |-> "", errors |-> EmptyMap]

Init ==
  /\ schema = [keys |-> <<>>, val |-> EmptyMap]
  /\ constructed = FALSE
  /\ errors = <<>>
  /\ obj = EmptyObject
  /\ result = NoResult
  /\ invoked = <<>>
  /\ nCalls = 0
  /\ nBuilder = 0
  /\ heap = NoHeap

\* The validator the builder chain under evaluation belongs to: the one of
\* the field added last.
Current == schema.val[schema.keys[Len(schema.keys)]]

CanBuild(cls) ==
  /\ ~constructed
  /\ schema.keys # <<>>
  /\ Current.cls = cls
  /\ nBuilder < (IF Len(schema.keys) = 1 THEN MaxChain ELSE MaxPairCalls)

\* The builder call's effect on the current validator; it returns this.
Build(fv) ==
  /\ schema' = [schema EXCEPT !.val[schema.keys[Len(schema.keys)]] = fv]
  /\ nBuilder' = nBuilder + 1
  /\ UNCHANGED <<constructed, errors, obj, result, invoked, nCalls, heap>>

PushRule(fv, rule) == [fv EXCEPT !.validators = Append(@, rule)]

\* key: string() / key: number() in the schema literal.
AddField(fv) ==
  /\ ~constructed
  /\ Len(schema.keys) < Len(FieldOrder)
  /\ schema.keys # <<>> => nBuilder <= MaxPairCalls
  /\ LET key == FieldOrder[Len(schema.keys) + 1]
     IN  schema' = [keys |-> Append(schema.keys, key),
                    val |-> Put(schema.val, key, fv)]
  /\ UNCHANGED <<constructed, errors, obj, result, invoked, nCalls, nBuilder,
                 heap>>

string == AddField(StringValidator)

number == AddField(NumberValidator)

(***************************************************************************)
(* The builder methods of StringValidator.                                 *)
(***************************************************************************)
StringValidator_required ==
  /\ CanBuild("string")
  /\ Build(PushRule(Current, Rule("string", "required")))

StringValidator_min ==
  \E length \in MinLengths :
    /\ CanBuild("string")
    /\ Build(PushRule(Current, [Rule("string", "min") EXCEPT !.length = length]))

StringValidator_email ==
  \E options \in EmailOptions :
    LET commonDomains ==
          SelectSeq(options.domains,
                    LAMBDA domain : domain \in Range(options.excludeDomains))
    IN  /\ CanBuild("string")
        /\ IF Len(commonDomains) > 0
             THEN Build([Current EXCEPT
                           !.invalidSetup = DomainsSetupMessage(commonDomains)])
             ELSE Build(PushRule(Current,
                          [Rule("string", "email") EXCEPT
                             !.domains = options.domains,
                             !.excludeDomains = options.excludeDomains]))

StringValidator_oneOf ==
  \E allowedValues \in AllowedValueLists :
    /\ CanBuild("string")
    /\ IF Len(allowedValues) = 0
         THEN Build([Current EXCEPT !.invalidSetup = OneOfSetupMessage])
         ELSE Build(PushRule(Current,
                      [Rule("string", "oneOf") EXCEPT
                         !.allowedValues = allowedValues]))

StringValidator_trim ==
  /\ CanBuild("string")
  /\ Build([Current EXCEPT !.preprocessors = Append(@, "trim")])

StringValidator_optional ==
  /\ CanBuild("string")
  /\ Build([Current EXCEPT !.isOptional = TRUE])

StringValidator_nullable ==
  /\ CanBuild("string")
  /\ Build([Current EXCEPT !.isNullable = TRUE])

StringValidator_equals ==
  \E field \in CrossFields :
    /\ CanBuild("string")
    /\ Build(PushRule(Current, [Rule("string", "equals") EXCEPT !.field = field]))

(***************************************************************************)
(* The builder methods of NumberValidator.                                 *)
(***************************************************************************)
NumberValidator_required ==
  /\ CanBuild("number")
  /\ Build(PushRule(Current, Rule("number", "required")))

NumberValidator_positive ==
  /\ CanBuild("number")
  /\ Build(PushRule(Current, Rule("number", "positive")))

NumberValidator_greater ==
  \E field \in CrossFields :
    /\ CanBuild("number")
    /\ Build(PushRule(Current, [Rule("number", "greater") EXCEPT !.field = field]))

NumberValidator_optional ==
  /\ CanBuild("number")
  /\ Build([Current EXCEPT !.isOptional = TRUE])

NumberValidator_nullable ==
  /\ CanBuild("number")
  /\ Build([Current EXCEPT !.isNullable = TRUE])

(***************************************************************************)
(* Exterminator's constructor and validate.                                *)
(***************************************************************************)
\* new Exterminator(schema)
Exterminator ==
  /\ ~constructed
  /\ constructed' = TRUE
  /\ errors' = <<>>
  /\ UNCHANGED <<schema, obj, result, invoked, nCalls, nBuilder, heap>>

\* The state a validate(o) call leaves, r being what it computed.
Returned(o, r) ==
  /\ schema' = [schema EXCEPT !.val = r.val]
  /\ errors' = r.ext
  /\ obj' = o
  /\ result' = r.result
  /\ invoked' = r.invoked
  /\ nCalls' = nCalls + 1
  /\ UNCHANGED <<constructed, nBuilder, heap>>

\* validator.validate(obj)
validate ==
  \E o \in Objects :
    /\ constructed
    /\ nCalls < MaxCalls
    /\ Returned(o, Exterminator_validate(schema, errors, o))

Next ==
  \/ string
  \/ number
  \/ StringValidator_required
  \/ StringValidator_min
  \/ StringValidator_email
  \/ StringValidator_oneOf
  \/ StringValidator_trim
  \/ StringValidator_optional
  \/ StringValidator_nullable
  \/ StringValidator_equals
  \/ NumberValidator_required
  \/ NumberValidator_positive
  \/ NumberValidator_greater
  \/ NumberValidator_optional
  \/ NumberValidator_nullable
  \/ Exterminator
  \/ validate

Spec == Init /\ [][Next]_vars

(***************************************************************************)
(* The errors lists as objects.  getErrors returns the list itself, not a   *)
(* copy, so a report's entry and the validator's this.errors are the same   *)
(* object until validate assigns this.errors again.                         *)
(***************************************************************************)
\* [] : a new list object holding contents.
Alloc(h, contents) == [h EXCEPT !.lists = Append(@, contents)]

\* this.errors.length = 0: the list this.errors refers to emptied in place.
TruncateErrors(h, instance) ==
  IF h.slot[instance] = 0
    THEN [h EXCEPT !.lists = Append(@, <<>>),
                   !.slot[instance] = Len(h.lists) + 1]
    ELSE [h EXCEPT !.lists[h.slot[instance]] = <<>>]

\* this.errors = []: this.errors refers to a new, empty list.
ResetErrors(h, instance) ==
  [h EXCEPT !.lists = Append(@, <<>>), !.slot[instance] = Len(h.lists) + 1]

\* this.errors.push(...) of each message validate pushes, in order.
PushAll(h, instance, messages) ==
  [h EXCEPT !.lists[h.slot[instance]] = @ \o messages]

\* validate(value, obj) of the instance, messages being what it pushes.
FieldValidateRef(h, instance, messages) ==
  PushAll(ResetErrors(h, instance), instance, messages)

\* getErrors(): return this.errors, the list itself.
getErrors(h, instance) == h.slot[instance]

\* errors[key] = validator.getErrors() when validate did not return true.
\* st = [h, refs]: the lists, and the list each entry of the local errors
\* map refers to.
RecordRef(st, c, instance, h) ==
  [h |-> h,
   refs |-> IF c.ret # "throw" /\ IsInvalid(c.ret)
              THEN Put(st.refs, c.key, getErrors(h, instance))
              ELSE st.refs]

\* The loop body for the field validate call c; val[c.key].errors is the
\* list of messages that call pushed.
FieldStepRef(st, c, val) ==
  RecordRef(st, c, st.h.inst[c.key],
    FieldValidateRef(st.h, st.h.inst[c.key], val[c.key].errors))

\* The loop over the schema's keys, for the calls it makes.
RECURSIVE FieldLoopRef(_, _, _, _)
FieldLoopRef(calls, i, val, st) ==
  IF i > Len(calls) THEN st
  ELSE FieldLoopRef(calls, i + 1, val, FieldStepRef(st, calls[i], val))

\* What the lists of a report hold.
Contents(h, refs) == [key \in DOMAIN refs |-> h.lists[refs[key]]]

\* return { message, errors }: the report goes to the caller, who keeps it.
ReturnReport(h, refs) ==
  [h EXCEPT !.reports =
     Append(@, [refs |-> refs, returned |-> Contents(h, refs)])]

\* The end of validate: a failure report is returned, or true, or nothing.
ReportRef(st, kind) ==
  IF kind = "failure" THEN ReturnReport(st.h, st.refs) ELSE st.h

\* Exterminator.validate(obj) on the lists h, r being what it gives by value.
Exterminator_validateRef(sch, o, r, h) ==
  IF ~arraysEqual(sort(sch.keys), sort(o.keys))
    THEN ReturnReport(Alloc(h, <<KeysMessage>>),
                      [key \in {"keys"} |-> Len(h.lists) + 1])
    ELSE ReportRef(FieldLoopRef(r.invoked, 1, r.val,
                     [h |-> h, refs |-> EmptyMap]),
                   r.result.kind)

\* A validator as its instance is after the call: this.errors is the list
\* the instance refers to.
InstanceView(fv, h, instance) ==
  IF h.slot[instance] = 0 THEN fv
  ELSE [fv EXCEPT !.errors = h.lists[h.slot[instance]], !.hasErrors = TRUE]

(***************************************************************************)
(* Schema literals given whole: the builder chains the cross-field rules    *)
(* and the shared lists need.                                               *)
(***************************************************************************)
\* .trim()
WithTrim(fv) == [fv EXCEPT !.preprocessors = Append(@, "trim")]

\* .equals(field), .greater(field), .less(field), .greaterEqual(field),
\* .lessEqual(field)
WithCross(fv, name, field) ==
  PushRule(fv, [Rule(fv.cls, name) EXCEPT !.field = field])

\* .email().min(1)
WithEmailMin(fv) ==
  PushRule(PushRule(fv, Rule("string", "email")),
           [Rule("string", "min") EXCEPT !.length = 1])

\* The cross-field rules of NumberValidator.
Relations == {"greater", "less", "greaterEqual", "lessEqual"}

\* { b: fv }
One(fv, calls) ==
  [schema |-> [keys |-> <<"b">>, val |-> [key \in {"b"} |-> fv]],
   inst |-> [key \in {"b"} |-> "b"], calls |-> calls]

\* { b: fb, a: fa }
Two(fb, fa, calls) ==
  [schema |-> [keys |-> <<"b", "a">>,
               val |-> [key \in {"a", "b"} |-> IF key = "b" THEN fb ELSE fa]],
   inst |-> [key \in {"a", "b"} |-> key], calls |-> calls]

\* const v = fv; { b: v, a: v }
Same(fv, calls) ==
  [schema |-> [keys |-> <<"b", "a">>, val |-> [key \in {"a", "b"} |-> fv]],
   inst |-> [key \in {"a", "b"} |-> "b"], calls |-> calls]

Literals ==
  {One(WithCross(WithTrim(StringValidator), "equals", "b"), 2),
   Two(WithTrim(StringValidator),
       WithCross(StringValidator, "equals", "b"), 2),
   Two(WithCross(WithTrim(StringValidator), "equals", "a"),
       WithTrim(StringValidator), 3),
   Same(WithEmailMin(StringValidator), 2),
   Same(PushRule(NumberValidator, Rule("number", "positive")), 1)}
    \cup {Two(WithTrim(StringValidator),
              WithCross(NumberValidator, name, "b"), 2) : name \in Relations}

\* The values of the two-key objects given to these schemas.
RefValues == {EmptyString, Str(<<" ">>), Str(MailAtX), Num(1)}

RefObjects ==
  {[keys |-> <<>>, val |-> EmptyMap]}
    \cup {[keys |-> <<"b">>, val |-> [k \in {"b"} |-> v]] : v \in Values}
    \cup {[keys |-> <<"a", "b">>, val |-> f] : f \in [{"a", "b"} -> RefValues]}

\* The lists the constructors create: this.errors = [] of each
\* StringValidator instance; a NumberValidator has no errors property.
RECURSIVE NewLists(_, _, _)
NewLists(lit, i, h) ==
  IF i > Len(lit.schema.keys) THEN h
  ELSE IF lit.inst[lit.schema.keys[i]] # lit.schema.keys[i]
    THEN NewLists(lit, i + 1, h)
  ELSE IF lit.schema.val[lit.schema.keys[i]].hasErrors
    THEN NewLists(lit, i + 1,
           [Alloc(h, <<>>) EXCEPT
              !.slot = Put(@, lit.schema.keys[i], Len(h.lists) + 1)])
    ELSE NewLists(lit, i + 1,
           [h EXCEPT !.slot = Put(@, lit.schema.keys[i], 0)])

InitRef ==
  \E lit \in Literals :
    /\ schema = lit.schema
    /\ heap = NewLists(lit, 1, [NoHeap EXCEPT !.inst = lit.inst])
    /\ nBuilder = lit.calls
    /\ constructed = FALSE
    /\ errors = <<>>
    /\ obj = EmptyObject
    /\ result = NoResult
    /\ invoked = <<>>
    /\ nCalls = 0

\* The state a validate(o) call leaves, with the lists followed.
ReturnedRef(o, r) ==
  /\ heap' = Exterminator_validateRef(schema, o, r, heap)
  /\ schema' =
       [schema EXCEPT !.val =
          [key \in DOMAIN r.val |->
             InstanceView(r.val[key], heap', heap.inst[key])]]
  /\ errors' = r.ext
  /\ obj' = o
  /\ result' = r.result
  /\ invoked' = r.invoked
  /\ nCalls' = nCalls + 1
  /\ UNCHANGED <<constructed, nBuilder>>

\* validator.validate(obj), with the lists followed.
validateRef ==
  \E o \in RefObjects :
    /\ constructed
    /\ nCalls < MaxCalls
    /\ ReturnedRef(o, Exterminator_validate(schema, errors, o))

NextRef ==
  \/ Exterminator
  \/ validateRef

SpecRef == InitRef /\ [][NextRef]_vars

(***************************************************************************)
(* Properties.                                                             *)
(***************************************************************************)
\* A validate call has returned (or thrown): obj, result and invoked are its.
Called == nCalls > 0

KeysMatch == Range(schema.keys) = Range(obj.keys)

\* The validator validate called in the call c of invoked.
ValidatorOf(c) == schema.val[c.key]

\* The preprocessors' output for a value: [thrown, value, ran].
Preprocessed(fv, value) ==
  RunPreprocessors(fv.preprocessors, 1,
    [thrown |-> FALSE, value |-> value, ran |-> 0])

\* Every rule registered on fv returns true for the value its
\* preprocessors give.
SatisfiesRules(fv, value, o) ==
  /\ ~Preprocessed(fv, value).thrown
  /\ \A i \in 1..Len(fv.validators) :
       RuleCheck(fv.validators[i], Preprocessed(fv, value).value, o).t = "true"

AllRulesSatisfied ==
  \A key \in Range(schema.keys) :
    SatisfiesRules(schema.val[key], Get(obj, key), obj)

\* C1: when the object's own key set differs from the schema's, validate
\* returns the failure report whose errors map has the one entry "keys" with
\* the generic message, and no field validator's validate is called.
C1_KeyMismatch ==
  (Called /\ ~KeysMatch) => (result = KeysFailure /\ invoked = <<>>)

\* C1 witness: a one-field schema was given an object with an extra key.
C1_Witness ==
  /\ Called
  /\ schema.keys = <<"b">>
  /\ obj.keys = <<"a", "b">>
  /\ obj.val["b"] = Str(MailAtX)
  /\ result = KeysFailure

C3_NeverThrows ==
  /\ result.kind # "throw"
  /\ \A i \in DOMAIN invoked : invoked[i].ret # "throw"

\* C4 as stated: a field validator no builder method was called on fails a
\* value of the wrong base type: string() a number, number() a string.
C4_BaseTypeCheck ==
  (/\ Called
   /\ schema.keys = <<"b">>
   /\ obj.keys = <<"b">>
   /\ nBuilder = 0
   /\ \/ schema.val["b"].cls = "string" /\ obj.val["b"].t = "number"
      \/ schema.val["b"].cls = "number" /\ obj.val["b"] = Str(MailAtX))
    => (result.kind = "failure" /\ "b" \in DOMAIN result.errors)

\* The schema as the schema literal built it: every errors slot as its
\* constructor left it.
FreshSchema ==
  [keys |-> schema.keys,
   val |-> [key \in DOMAIN schema.val |->
              [schema.val[key] EXCEPT !.errors = <<>>,
                                      !.hasErrors =
                                        schema.val[key].cls = "string"]]]

\* validate(obj) on a new Exterminator over the fresh schema.
FreshRun == Exterminator_validate(FreshSchema, <<>>, obj)

\* C5: every validate call, whatever calls came before it on the same
\* schema, returns what a fresh schema returns for the same object, calls
\* the same field validators with the same outcomes, and leaves in each
\* called validator the errors list the fresh run leaves: nothing of an
\* earlier call appears.
C5_NoCarryOver ==
  Called =>
    /\ result = FreshRun.result
    /\ invoked = FreshRun.invoked
    /\ \A i \in DOMAIN invoked :
         ValidatorOf(invoked[i]).errors = FreshRun.val[invoked[i].key].errors

\* C5 witness: an earlier call on this schema failed a field, and the
\* second call returned true.
C5_Witness ==
  /\ nCalls = MaxCalls
  /\ Len(errors) > 0
  /\ Len(invoked) > 0
  /\ result = ReturnTrue

\* validate reaches the rule sweep for this value: no setup error, no
\* optional or null short-circuit, no exception in a preprocessor.
ReachedSweep(fv, value) ==
  /\ fv.invalidSetup = NoSetup
  /\ ~(fv.isOptional /\ value = EmptyString)
  /\ value # Null
  /\ ~Preprocessed(fv, value).thrown

\* The rules of fv whose check does not return true for value, in
\* registration order.
FailingRules(fv, value, o) ==
  SelectSeq(fv.validators, LAMBDA rule : RuleCheck(rule, value, o).t # "true")

\* The message of each failing rule, in registration order.
FailingMessages(fv, value, o) ==
  [i \in 1..Len(FailingRules(fv, value, o)) |->
     RuleError(FailingRules(fv, value, o)[i], value,
               RuleCheck(FailingRules(fv, value, o)[i], value, o))]

\* C6 (state part): a validate call on a field validator whose invalidSetup
\* is set returns false with the errors list holding that message alone,
\* whatever the value, and runs no preprocessor and no rule.
SetupErrorAlone ==
  \A i \in DOMAIN invoked :
    ValidatorOf(invoked[i]).invalidSetup # NoSetup =>
      /\ invoked[i].ret = "false"
      /\ ValidatorOf(invoked[i]).errors = <<ValidatorOf(invoked[i]).invalidSetup>>
      /\ invoked[i].ran = 0
      /\ result.kind = "failure" =>
           result.errors[invoked[i].key] =
             <<ValidatorOf(invoked[i]).invalidSetup>>

\* C6 (step part): no later call clears a setup error once set.
SetupErrorStays ==
  \A key \in Range(schema.keys) :
    schema.val[key].invalidSetup # NoSetup =>
      schema'.val[key].invalidSetup # NoSetup

\* C6: once a builder call has set invalidSetup, it stays set, and every
\* validate call returns false with exactly the setup message, for every
\* value and whatever else was called on the validator.
C6_SetupErrorIsTerminal == []SetupErrorAlone /\ [][SetupErrorStays]_vars

\* C6 witness: an optional validator with a setup error was given "".
C6_Witness ==
  \E i \in DOMAIN invoked :
    /\ ValidatorOf(invoked[i]).invalidSetup # NoSetup
    /\ ValidatorOf(invoked[i]).isOptional
    /\ invoked[i].value = EmptyString
    /\ invoked[i].ret = "false"

\* C7: a validate call that reaches the rule sweep and does not throw has
\* called every preprocessor and every rule, and leaves in the errors list
\* the message of each rule whose check did not return true, in
\* registration order; it returns true exactly when that list is empty.
C7_EveryRuleEvaluated ==
  \A i \in DOMAIN invoked :
    (ReachedSweep(ValidatorOf(invoked[i]), invoked[i].value)
       /\ invoked[i].ret # "throw") =>
      /\ ValidatorOf(invoked[i]).errors =
           FailingMessages(ValidatorOf(invoked[i]),
             Preprocessed(ValidatorOf(invoked[i]), invoked[i].value).value, obj)
      /\ invoked[i].ran = Len(ValidatorOf(invoked[i]).preprocessors)
                            + Len(ValidatorOf(invoked[i]).validators)
      /\ (invoked[i].ret = "true") = (ValidatorOf(invoked[i]).errors = <<>>)

\* C7 witness: two rules failed in one call and both messages are listed.
C7_Witness ==
  \E i \in DOMAIN invoked :
    /\ invoked[i].ret = "false"
    /\ ReachedSweep(ValidatorOf(invoked[i]), invoked[i].value)
    /\ Len(ValidatorOf(invoked[i]).errors) = Len(ValidatorOf(invoked[i]).validators)
    /\ Len(ValidatorOf(invoked[i]).errors) > 1
    /\ ValidatorOf(invoked[i]).errors[1] # ValidatorOf(invoked[i]).errors[Len(ValidatorOf(invoked[i]).errors)]

\* C8: with no setup error and optional() called, validate of "" returns
\* true with an empty errors list and runs no preprocessor and no rule.
C8_OptionalEmpty ==
  \A i \in DOMAIN invoked :
    (/\ ValidatorOf(invoked[i]).invalidSetup = NoSetup
     /\ ValidatorOf(invoked[i]).isOptional
     /\ invoked[i].value = EmptyString) =>
      /\ invoked[i].ret = "true"
      /\ ValidatorOf(invoked[i]).errors = <<>>
      /\ invoked[i].ran = 0

\* C8 witness: an optional validator with the required rule was given "".
C8_Witness ==
  \E i \in DOMAIN invoked :
    /\ ValidatorOf(invoked[i]).isOptional
    /\ invoked[i].value = EmptyString
    /\ \E j \in DOMAIN ValidatorOf(invoked[i]).validators :
         ValidatorOf(invoked[i]).validators[j].name = "required"
    /\ invoked[i].ret = "true"

\* C9: with no setup error, validate of null returns true with no errors
\* when nullable() was called, and else false with the errors list
\* <<"Value cannot be null">>, optional or not, and runs no rule.
C9_Null ==
  \A i \in DOMAIN invoked :
    (/\ ValidatorOf(invoked[i]).invalidSetup = NoSetup
     /\ invoked[i].value = Null) =>
      /\ invoked[i].ran = 0
      /\ IF ValidatorOf(invoked[i]).isNullable
           THEN /\ invoked[i].ret = "true"
                /\ ValidatorOf(invoked[i]).errors = <<>>
           ELSE /\ invoked[i].ret = "false"
                /\ ValidatorOf(invoked[i]).errors = <<NullMessage>>

\* C9 witness: an optional validator that is not nullable was given null.
C9_Witness ==
  \E i \in DOMAIN invoked :
    /\ ValidatorOf(invoked[i]).isOptional
    /\ ~ValidatorOf(invoked[i]).isNullable
    /\ invoked[i].value = Null
    /\ invoked[i].ret = "false"

\* When the claim says the required rule fails.
RequiredFails(cls, value) ==
  \/ value.t \in {"null", "undefined"}
  \/ cls = "string" /\ value.t = "string" /\ Trim(value.s) = <<>>
  \/ cls = "number" /\ value = EmptyString

HasRequired(fv) ==
  \E j \in DOMAIN fv.validators : fv.validators[j].name = "required"

RequiredMessage(cls) ==
  IF cls = "string" THEN StringRequiredMessage ELSE NumberRequiredMessage

\* C10 as stated: where the sweep runs the required rule, its message is in
\* the errors list exactly when the value is null or absent, or trims to
\* empty (text), or is the empty string (numeric); not for the number 0.
C10_Required ==
  \A i \in DOMAIN invoked :
    (/\ ReachedSweep(ValidatorOf(invoked[i]), invoked[i].value)
     /\ invoked[i].ret # "throw"
     /\ HasRequired(ValidatorOf(invoked[i]))) =>
      (RequiredFails(ValidatorOf(invoked[i]).cls,
         Preprocessed(ValidatorOf(invoked[i]), invoked[i].value).value)
        <=> RequiredMessage(ValidatorOf(invoked[i]).cls)
              \in Range(ValidatorOf(invoked[i]).errors))

\* The schema apart from the field validators' errors slots.
ApartFromErrors(sch) ==
  [keys |-> sch.keys,
   val |-> [key \in DOMAIN sch.val |->
              [sch.val[key] EXCEPT !.errors = <<>>, !.hasErrors = TRUE]]]

\* C11 as stated: a validate call leaves the Exterminator's own fields, the
\* schema and its errors list, as they were, apart from the errors slots of
\* the field validators; the state after any number of calls is the state
\* after construction.
C11_OwnFieldsUnchanged ==
  [][constructed =>
       /\ errors' = errors
       /\ ApartFromErrors(schema') = ApartFromErrors(schema)]_vars

\* The fields whose validator's validate returned false in this call.
FailedFields == {invoked[i].key : i \in {j \in DOMAIN invoked : invoked[j].ret = "false"}}

\* C13: when the key sets match, the result is true exactly when every
\* field's validate was called and returned true; and a failure report's
\* errors map has an entry for exactly the fields whose validate returned
\* false, each entry the non-empty errors list that validator holds after
\* this call.
C13_ErrorsMap ==
  (Called /\ KeysMatch) =>
    /\ (result = ReturnTrue) <=>
         /\ Len(invoked) = Len(schema.keys)
         /\ \A i \in DOMAIN invoked : invoked[i].ret = "true"
    /\ result.kind = "failure" =>
         /\ {invoked[i].key : i \in DOMAIN invoked} = Range(schema.keys)
         /\ DOMAIN result.errors = FailedFields
         /\ \A key \in DOMAIN result.errors :
              /\ result.errors[key] = schema.val[key].errors
              /\ result.errors[key] # <<>>

\* C13 witness: of two fields one failed and one passed, and the report has
\* the failed field's entry alone.
C13_Witness ==
  /\ Called
  /\ schema.keys = <<"b", "a">>
  /\ Len(invoked) = 2
  /\ invoked[1].ret = "false"
  /\ invoked[2].ret = "true"
  /\ result.kind = "failure"
  /\ DOMAIN result.errors = {"b"}
  /\ Len(result.errors["b"]) > 0

\* What a call c of invoked on the validator fv leaves when every rule saw
\* the trimmed value: each failing rule's message for that value, with every
\* preprocessor and every rule called.
RulesSawTrimmed(fv, c) ==
  /\ c.ret \in {"true", "false"}
  /\ fv.errors = FailingMessages(fv, Str(Trim(c.value.s)), obj)
  /\ (c.ret = "true") = (FailingRules(fv, Str(Trim(c.value.s)), obj) = <<>>)
  /\ c.ran = Len(fv.preprocessors) + Len(fv.validators)

\* C14 (state part): a validate call that reaches the preprocessors, on a
\* validator trim() was called on, evaluates every rule on the trimmed value.
SeesPreprocessed ==
  \A i \in DOMAIN invoked :
    (/\ ReachedSweep(ValidatorOf(invoked[i]), invoked[i].value)
     /\ ValidatorOf(invoked[i]).preprocessors # <<>>) =>
      RulesSawTrimmed(ValidatorOf(invoked[i]), invoked[i])

\* C14 (step part): a builder call that registers a preprocessor appends it
\* to the preprocessors and leaves the rules registered before it as they
\* are, so it applies to them as to the rules registered after it.
TrimRegisters ==
  (/\ schema'.keys = schema.keys
   /\ schema.keys # <<>>
   /\ Current'.preprocessors # Current.preprocessors) =>
    /\ Current'.preprocessors = Append(Current.preprocessors, "trim")
    /\ Current'.validators = Current.validators

\* C14: in a field validator's validate call the preprocessors run, in
\* registration order and each on the output of the one before, ahead of the
\* first rule, and every rule is evaluated on their final output, wherever in
\* the builder chain trim() was called.
C14_PreprocessBeforeRules == []SeesPreprocessed /\ [][TrimRegisters]_vars

\* C14 witness: min(1) and trim() on a field given " ": the raw value has
\* one character, the rule saw "" and failed with the message for "".
C14_Witness ==
  \E i \in DOMAIN invoked :
    /\ Len(ValidatorOf(invoked[i]).preprocessors) = 1
    /\ Len(ValidatorOf(invoked[i]).validators) = 1
    /\ ValidatorOf(invoked[i]).validators[1].name = "min"
    /\ invoked[i].value = Str(<<" ">>)
    /\ invoked[i].ret = "false"
    /\ ValidatorOf(invoked[i]).errors = <<MinMessage(1, EmptyString)>>

\* The rules that read another field of the object.
CrossNames == {"equals"} \cup Relations

\* What a cross-field rule requires of the value it is given and the value
\* of the field it names.
CrossHolds(rule, value, other) ==
  CASE rule.name = "equals" -> value = other
    [] rule.name = "greater" -> GreaterThan(value, other)
    [] rule.name = "less" -> Less(value, other)
    [] rule.name = "greaterEqual" -> GreaterEqual(value, other)
    [] rule.name = "lessEqual" -> LessEqual(value, other)

\* The call c on the validator fv reports the cross-field rule exactly when
\* the value after fv's preprocessors fails it against the raw value of the
\* named field in the object validate was given.
ReadsRawField(fv, c, rule) ==
  (RuleError(rule, c.value, Fail) \in Range(fv.errors))
    <=> ~CrossHolds(rule, Preprocessed(fv, c.value).value, Get(obj, rule.field))

\* C12: a cross-field rule (equals, greater, less, greaterEqual, lessEqual)
\* compares the field's value with the raw value the named field has in the
\* object given to validate, never with the output of any field's
\* preprocessors; this for every field validate call that evaluates its
\* rules without an exception.
C12_CrossFieldRaw ==
  \A i \in DOMAIN invoked :
    (/\ ReachedSweep(ValidatorOf(invoked[i]), invoked[i].value)
     /\ invoked[i].ret # "throw") =>
      \A j \in DOMAIN ValidatorOf(invoked[i]).validators :
        ValidatorOf(invoked[i]).validators[j].name \in CrossNames =>
          ReadsRawField(ValidatorOf(invoked[i]), invoked[i],
                        ValidatorOf(invoked[i]).validators[j])

\* C12 witness: field b is trimmed, field a is compared with b, and both
\* are " ": b was validated first, on "", and a's rule passed against the
\* raw " ".
C12_Witness ==
  /\ Called
  /\ schema.keys = <<"b", "a">>
  /\ schema.val["b"].preprocessors # <<>>
  /\ \E j \in DOMAIN schema.val["a"].validators :
       /\ schema.val["a"].validators[j].name \in CrossNames
       /\ schema.val["a"].validators[j].field = "b"
  /\ obj.keys = <<"a", "b">>
  /\ obj.val["a"] = Str(<<" ">>)
  /\ obj.val["b"] = Str(<<" ">>)
  /\ Len(invoked) = 2
  /\ result = ReturnTrue

\* Every report returned so far holds, list by list, what it held when it
\* was returned.
ReportsKept ==
  \A i \in DOMAIN heap.reports :
    Contents(heap, heap.reports[i].refs) = heap.reports[i].returned

\* The report of the last call holds for each field the messages of that
\* field's own validate call.
OwnMessages ==
  (Called /\ result.kind = "failure") =>
    /\ heap.reports # <<>>
    /\ heap.reports[Len(heap.reports)].returned = result.errors

\* C15: no validate call changes a failure report an earlier call on the
\* same schema returned, since each field validate gives this.errors a new
\* list; and every entry of a report holds the messages of its own field's
\* validate call alone, also when one validator instance is bound to two
\* fields.
C15_ReportsNotAliased == ReportsKept /\ OwnMessages

\* C15 witness: one instance bound to both fields; the first call failed
\* field b, the second failed both fields with different lists, and b's
\* entries of the two reports are different lists with different contents.
C15_Witness ==
  /\ Len(heap.reports) >= 2
  /\ schema.keys = <<"b", "a">>
  /\ heap.inst["a"] = "b"
  /\ "b" \in DOMAIN heap.reports[1].refs
  /\ DOMAIN heap.reports[2].refs = {"a", "b"}
  /\ heap.reports[2].returned["a"] # heap.reports[2].returned["b"]
  /\ heap.reports[1].returned["b"] # heap.reports[2].returned["b"]
  /\ heap.reports[1].refs["b"] # heap.reports[2].refs["b"]

====
